---------------------------- MODULE Spec2Model ----------------------------
(***************************************************************************)
(* The MySQL plugin of Coronado: the command line plugin's schema          *)
(* migration commands (getSchemaVersion, upgrade, overlay, trim) and the   *)
(* application plugin's start-up check, as shipped by the MySQLPlugin      *)
(* package (src/MySQLPlugin/__init__.py, the package setup.py installs).   *)
(*                                                                         *)
(* One command runs at a time (the code is synchronous); a command is a    *)
(* fresh process whose only lasting effect is on the database. The schema  *)
(* package (context['mysqlSchemaPackage']) is an input that never changes: *)
(* its `versions` list and the version modules v<version> it holds.        *)
(*                                                                         *)
(* Version identifiers are text, as the metadata table stores them and as  *)
(* the command line hands them over; None is Python's None.                *)
(* raw_input is read as the operator's answer to the prompt.               *)
(***************************************************************************)
EXTENDS Naturals, Sequences, FiniteSets, TLC

\* ------------------------------------------------------------------ values

None == "None"

\* The version identifiers of the model, in installation order.
AllVersions == <<"1", "2">>

Versions == {AllVersions[i] : i \in 1..Len(AllVersions)}

\* What a version module may define.
Capabilities == {"upgrade", "overlay", "trim"}

\* The previousVersion a version module declares, when it declares one: a
\* version older than every version of the model.
OlderVersion == "0"

\* Non-answers the operator may type before y or n (askYesOrNoQuestion).
MaxPrompts == 2

NoModule == [present |-> FALSE, caps |-> {}, previousVersion |-> None]

\* A version module: the functions it defines and its previousVersion
\* attribute (None: the attribute is not defined). An attribute nobody reads
\* (previousVersion without trim) is left out.
ModuleShapes ==
    {NoModule}
    \cup {[present |-> TRUE, caps |-> c, previousVersion |-> None] :
            c \in SUBSET Capabilities}
    \cup {[present |-> TRUE, caps |-> c, previousVersion |-> OlderVersion] :
            c \in {d \in SUBSET Capabilities : "trim" \in d}}

\* mysqlSchemaPackage.versions: a non-empty list in installation order.
Catalogs == {SubSeq(AllVersions, 1, n) : n \in 1..Len(AllVersions)}
            \cup {SubSeq(AllVersions, n, Len(AllVersions)) : n \in 1..Len(AllVersions)}

\* The database as the commands see it: no database of that name, a database
\* without the metadata table, the table without a version row, or the
\* version stored in the row.
DbStates == {"NoDb", "NoTable", "NoRow"} \cup Versions

VARIABLES
    versions,          \* context['mysqlSchemaPackage'].versions
    modules,           \* the version modules of the schema package
    metadata,          \* the database: see DbStates
    context,           \* the plugin's context: the entries start looks at
    pc,                \* where the running command is
    op,                \* the command and its arguments as given
    currentVersion,    \* local of upgrade / overlay
    targetVersion,     \* local of upgrade / overlay
    referenceVersion,  \* local of trim
    trimVersion,       \* local of trim
    response,          \* local of trim: the operator's answer
    asked,             \* non-answers typed so far at the prompt
    conns,             \* connections open now
    opened,            \* connections this command has opened
    calls,             \* version module procedures this command has invoked
    log,               \* what this command has logged
    outcome,           \* how the command ended
    inspected,         \* what the version inspection gave
    before,            \* the database when the command started
    follows,           \* the version the command before this one upgraded to
    lastUpgraded,      \* the version this command upgraded to
    ran,               \* the mysql client runs of this command, with their status
    followsInstall,    \* what the installSchema before this command installed
    fixture,           \* the document a loading command was given
    pos,               \* the item of the loading plan that is next
    committed,         \* the rows this command has inserted
    attempts,          \* the inserts this command has executed
    handoffs,          \* the applications whose fixture was written to a file
    handed             \* the context the version module's procedure was given

package == <<versions, modules>>
locals == <<currentVersion, targetVersion, referenceVersion, trimVersion,
            response, asked>>
trace == <<conns, opened, calls, log, outcome, inspected>>
history == <<before, follows, lastUpgraded>>
shell == <<ran, followsInstall>>
loader == <<fixture, pos, committed, attempts, handoffs>>
vars == <<package, metadata, context, pc, op, locals, trace, history, shell,
          loader, handed>>

\* ---------------------------------------------------------------- outcomes

Running == [status |-> "running", type |-> "", kind |-> "",
            version |-> None, capability |-> ""]

Returned(v) == [status |-> "returned", type |-> "", kind |-> "",
                version |-> v, capability |-> ""]

Raised(t, k, v, c) == [status |-> "raised", type |-> t, kind |-> k,
                       version |-> v, capability |-> c]

Last(s) == s[Len(s)]

\* importlib.import_module(package.__name__ + '.v' + str(version))
importModule(v) == IF v \in Versions THEN modules[v] ELSE NoModule

hasattr(mod, name) == name \in mod.caps

\* ------------------------------------------------ the command line plugin

\* getSchemaVersion, the query and what it gives: None when the metadata
\* table does not exist (error 1146), a CommandError when the table holds no
\* version row, the stored value otherwise.
getSchemaVersion(md) ==
    IF md = "NoTable" THEN Returned(None)
    ELSE IF md = "NoRow" THEN Raised("CommandError", "SchemaRead", None, "")
    ELSE Returned(md)

\* upgradeResolve without the comparison of the installed version with the
\* target version.
upgradeResolve_NoEqualityCheck(cur, tgt) ==
    IF cur = None
    THEN [out |-> Raised("CommandError", "NoSchemaInstalled", None, ""),
          target |-> tgt]
    ELSE LET t == IF tgt = None THEN Last(versions) ELSE tgt
             m == importModule(t)
         IN  IF ~m.present
             THEN [out |-> Raised("ImportError", "NoModule", t, ""), target |-> t]
             ELSE IF ~hasattr(m, "upgrade")
             THEN [out |-> Raised("CommandError", "UnsupportedOperation",
                                  t, "upgrade"),
                   target |-> t]
             ELSE [out |-> Running, target |-> t]

\* upgradeResolve that turns down a target which comes before the installed
\* version in the registry's order.
upgradeResolve_RejectsOlder(cur, tgt) ==
    IF cur = None
    THEN [out |-> Raised("CommandError", "NoSchemaInstalled", None, ""),
          target |-> tgt]
    ELSE IF cur = tgt
    THEN [out |-> Raised("CommandError", "AlreadyAtVersion", cur, ""),
          target |-> tgt]
    ELSE LET t == IF tgt = None THEN Last(versions) ELSE tgt
             m == importModule(t)
             at(v) == CHOOSE i \in 1..Len(AllVersions) : AllVersions[i] = v
         IN  IF at(t) < at(cur)
             THEN [out |-> Raised("CommandError", "OlderVersion", t, ""),
                   target |-> t]
             ELSE IF ~m.present
             THEN [out |-> Raised("ImportError", "NoModule", t, ""), target |-> t]
             ELSE IF ~hasattr(m, "upgrade")
             THEN [out |-> Raised("CommandError", "UnsupportedOperation",
                                  t, "upgrade"),
                   target |-> t]
             ELSE [out |-> Running, target |-> t]

\* upgrade, from the version read to the module resolved: the outcome
\* (Running: go on to the migration) and the target version.
upgradeResolve(cur, tgt) ==
    IF cur = None
    THEN [out |-> Raised("CommandError", "NoSchemaInstalled", None, ""),
          target |-> tgt]
    ELSE IF cur = tgt
    THEN [out |-> Raised("CommandError", "AlreadyAtVersion", cur, ""),
          target |-> tgt]
    ELSE LET t == IF tgt = None THEN Last(versions) ELSE tgt
             m == importModule(t)
         IN  IF ~m.present
             THEN [out |-> Raised("ImportError", "NoModule", t, ""), target |-> t]
             ELSE IF ~hasattr(m, "upgrade")
             THEN [out |-> Raised("CommandError", "UnsupportedOperation",
                                  t, "upgrade"),
                   target |-> t]
             ELSE [out |-> Running, target |-> t]

\* overlayResolve without the test for a missing schema.
overlayResolve_NoSchemaCheck(cur, tgt) ==
    IF cur = tgt
    THEN [out |-> Raised("CommandError", "AlreadyAtVersion", cur, ""),
          target |-> tgt]
    ELSE LET t == IF tgt = None THEN Last(versions) ELSE tgt
             m == importModule(t)
         IN  IF ~m.present
             THEN [out |-> Raised("ImportError", "NoModule", t, ""), target |-> t]
             ELSE IF ~hasattr(m, "overlay")
             THEN [out |-> Raised("CommandError", "UnsupportedOperation",
                                  t, "overlay"),
                   target |-> t]
             ELSE [out |-> Running, target |-> t]

\* overlay, from the version read to the module resolved.
overlayResolve(cur, tgt) ==
    IF cur = None
    THEN [out |-> Raised("CommandError", "NoSchemaInstalled", None, ""),
          target |-> tgt]
    ELSE IF cur = tgt
    THEN [out |-> Raised("CommandError", "AlreadyAtVersion", cur, ""),
          target |-> tgt]
    ELSE LET t == IF tgt = None THEN Last(versions) ELSE tgt
             m == importModule(t)
         IN  IF ~m.present
             THEN [out |-> Raised("ImportError", "NoModule", t, ""), target |-> t]
             ELSE IF ~hasattr(m, "overlay")
             THEN [out |-> Raised("CommandError", "UnsupportedOperation",
                                  t, "overlay"),
                   target |-> t]
             ELSE [out |-> Running, target |-> t]

\* trimResolve without the test for the module's trim function.
trimResolve_NoCapabilityCheck(ref, trimV) ==
    IF ref = None
    THEN [out |-> Raised("CommandError", "NoSchemaInstalled", None, ""),
          trim |-> trimV]
    ELSE LET m == importModule(ref)
         IN  IF ~m.present
             THEN [out |-> Raised("ImportError", "NoModule", ref, ""),
                   trim |-> trimV]
             ELSE IF trimV # None
             THEN [out |-> Running, trim |-> trimV]
             ELSE IF m.previousVersion = None
             THEN [out |-> Raised("AttributeError", "previousVersion", ref, ""),
                   trim |-> trimV]
             ELSE [out |-> Running, trim |-> m.previousVersion]

\* trimResolve taking the module's previousVersion whether or not a trim
\* version was given.
trimResolve_AlwaysPrevious(ref, trimV) ==
    IF ref = None
    THEN [out |-> Raised("CommandError", "NoSchemaInstalled", None, ""),
          trim |-> trimV]
    ELSE LET m == importModule(ref)
         IN  IF ~m.present
             THEN [out |-> Raised("ImportError", "NoModule", ref, ""),
                   trim |-> trimV]
             ELSE IF ~hasattr(m, "trim")
             THEN [out |-> Raised("CommandError", "UnsupportedOperation",
                                  ref, "trim"),
                   trim |-> trimV]
             ELSE IF m.previousVersion = None
             THEN [out |-> Raised("AttributeError", "previousVersion", ref, ""),
                   trim |-> trimV]
             ELSE [out |-> Running, trim |-> m.previousVersion]

\* trim, from the reference version to the trim version: the outcome
\* (Running: go on to the prompt) and the trim version.
trimResolve(ref, trimV) ==
    IF ref = None
    THEN [out |-> Raised("CommandError", "NoSchemaInstalled", None, ""),
          trim |-> trimV]
    ELSE LET m == importModule(ref)
         IN  IF ~m.present
             THEN [out |-> Raised("ImportError", "NoModule", ref, ""),
                   trim |-> trimV]
             ELSE IF ~hasattr(m, "trim")
             THEN [out |-> Raised("CommandError", "UnsupportedOperation",
                                  ref, "trim"),
                   trim |-> trimV]
             ELSE IF trimV # None
             THEN [out |-> Running, trim |-> trimV]
             ELSE IF m.previousVersion = None
             THEN [out |-> Raised("AttributeError", "previousVersion", ref, ""),
                   trim |-> trimV]
             ELSE [out |-> Running, trim |-> m.previousVersion]

\* upgradeCall handing over the target version as fromVersion.
upgradeCall_FromTarget(tgt, cur) ==
    [version |-> tgt, proc |-> "upgrade", arg |-> tgt]

\* targetVersMod.upgrade(context, fromVersion=currentVersion)
upgradeCall(tgt, cur) == [version |-> tgt, proc |-> "upgrade", arg |-> cur]

\* targetVersMod.overlay(context, fromVersion=currentVersion)
overlayCall(tgt, cur) == [version |-> tgt, proc |-> "overlay", arg |-> cur]

\* trimDispatch going to the migration unless the answer is y.
trimDispatch_AnswerInverted(resp) ==
    IF resp # "y"
    THEN [out |-> Raised("NameError", "getConnection", None, ""), log |-> {}]
    ELSE [out |-> Returned(None), log |-> {"Trim not performed"}]

\* trim after the prompt: 'y' goes to the migration, whose connection comes
\* from getConnection, a name the module does not define; any other answer
\* logs that the trim was not performed.
trimDispatch(resp) ==
    IF resp = "y"
    THEN [out |-> Raised("NameError", "getConnection", None, ""), log |-> {}]
    ELSE [out |-> Returned(None), log |-> {"Trim not performed"}]

\* ------------------------------------------------------ the mysql client

\* subprocess.check_call without regard to the exit status.
checkCall_IgnoresStatus(cmd, rc) == Running

\* subprocess.check_call(cmd, shell=True): CalledProcessError on a non-zero
\* exit status.
checkCall(cmd, rc) ==
    IF rc # 0 THEN Raised("CalledProcessError", cmd, None, "") ELSE Running

\* The exit statuses the mysql client may give for a command on database md:
\* a script cannot succeed on a database that does not exist.
ExitStatuses(cmd, md) ==
    IF cmd = "execute" /\ md = "NoDb" THEN {1} ELSE {0, 1}

\* DROP DATABASE IF EXISTS that leaves the database in place.
dropDatabase_Keeps(md) == md

\* DROP DATABASE IF EXISTS `name`
dropDatabase(md) == "NoDb"

\* CREATE DATABASE `name`
createDatabase(md) == "NoTable"

\* A run of the mysql client that reports success and changes nothing.
runScript_Nothing(md, script) == md

\* mysql ... dbName < sqlFilePath, for a file that leaves the database as
\* script says.
runScript(md, script) == script

\* What a script that failed may leave behind: nothing, or the metadata table
\* without its version row.
PartlyRun(md, script) ==
    {md} \cup (IF md = "NoTable" /\ script \in Versions THEN {"NoRow"} ELSE {})

\* installSchema that runs the schema file right after the drop.
installSchemaNext_SkipCreate(step) ==
    IF step = "drop" THEN "execute" ELSE "done"

\* installSchema, the step after a step that succeeded.
installSchemaNext(step) ==
    IF step = "drop" THEN "create"
    ELSE IF step = "create" THEN "execute"
    ELSE "done"

\* ------------------------------------------------------- fixture loading

\* The work of a load, in the order the code does it: an insert of one row,
\* or the hand-off of another application's entry.
Insert(app, tbl, i) == [kind |-> "insert", app |-> app, table |-> tbl, row |-> i]

Handoff(app) == [kind |-> "handoff", app |-> app, table |-> "", row |-> 0]

\* for row in fixture[tableName]
installRows(app, tbl, n) == [i \in 1..n |-> Insert(app, tbl, i)]

\* for tableName in fixture['tableOrder']
RECURSIVE installTables(_, _, _)
installTables(app, doc, order) ==
    IF order = <<>> THEN <<>>
    ELSE installRows(app, Head(order), doc.rows[Head(order)])
            \o installTables(app, doc, Tail(order))

\* _installFixture that takes the tables in a fixed order when the document
\* gives none.
installFixture_DefaultOrder(app, doc) ==
    installTables(app, doc, IF doc.hasOrder THEN doc.tableOrder ELSE <<"t", "u">>)

\* _installFixture(database, fixture, ignoreConflicts)
installFixture(app, doc) ==
    IF ~doc.hasOrder THEN <<>>
    ELSE installTables(app, doc, doc.tableOrder)

\* for appName, fix in fixture.items()
RECURSIVE installEntries(_, _)
installEntries(fx, apps) ==
    IF apps = <<>> THEN <<>>
    ELSE (IF Head(apps) = "self"
          THEN installFixture("self", fx.self)
          ELSE <<Handoff(Head(apps))>>)
            \o installEntries(fx, Tail(apps))

\* installAFixture(database, fixture, ignoreConflicts)
installAFixture(fx) ==
    IF fx.apps = <<>> THEN installFixture("self", fx.self)
    ELSE installEntries(fx, fx.apps)

\* importData: for table in tables: for row in table['rows']
importRows(fx) == installTables("self", fx.self, fx.self.tableOrder)

\* The work of the command under way.
Plan ==
    IF op.name = "importData" THEN importRows(fixture)
    ELSE installAFixture(fixture)

\* except IntegrityError that always goes on with the next row.
onConflict_AlwaysContinue(ignoreConflicts) == "continue"

\* except IntegrityError with the test of ignoreConflicts the wrong way round.
onConflict_Inverted(ignoreConflicts) ==
    IF ignoreConflicts THEN "raise" ELSE "continue"

\* except IntegrityError: continue if ignoreConflicts, else raise.
onConflict(ignoreConflicts) ==
    IF ignoreConflicts THEN "continue" ELSE "raise"

\* ------------------------------------------------- the application plugin

\* AppPlugin.getCurrDbSchemaVersion: as getSchemaVersion, on the shared
\* connection; the error it raises for a missing version row is DatabaseError,
\* a name the module neither defines nor imports.
getCurrDbSchemaVersion(md) ==
    IF md = "NoTable" THEN Returned(None)
    ELSE IF md = "NoRow" THEN Raised("NameError", "DatabaseError", None, "")
    ELSE Returned(md)

\* checkDbSchemaVersion that lets a database without schema pass.
checkDbSchemaVersion_AcceptsNone(cur) ==
    IF cur # None /\ cur # Last(versions)
    THEN Raised("SchemaVersionMismatch", "SchemaVersionMismatch", cur, "")
    ELSE Returned(None)

\* AppPlugin.checkDbSchemaVersion, given the version read.
checkDbSchemaVersion(cur) ==
    IF cur # Last(versions)
    THEN Raised("SchemaVersionMismatch", "SchemaVersionMismatch", cur, "")
    ELSE Returned(None)

\* --------------------------------------------------------------- commands

Idle == pc \in {"idle", "done"}

\* The context of a process that holds no connection yet.
NoContext == [database |-> "absent", getNewDbConnection |-> "absent",
              shortcutAttrs |-> {}]

NoArgs == [name |-> "", targetVersion |-> None, referenceVersion |-> None,
           trimVersion |-> None, script |-> None, ignoreConflicts |-> FALSE]

\* The tables a document may hold rows for, and the most rows of one table.
Tables == {"t", "u"}

MaxRows == 2

\* The values a document may give for tableOrder.
TableOrders == {<<>>, <<"t">>, <<"u">>, <<"t", "u">>, <<"u", "t">>}

\* A table -> rows mapping: rows[tbl] is the number of rows of tbl, hasOrder
\* says whether the key 'tableOrder' is present.
Docs ==
    { d \in [rows : [Tables -> 0..MaxRows], hasOrder : BOOLEAN,
             tableOrder : TableOrders] :
        ~d.hasOrder => d.tableOrder = <<>> }

NoDoc == [rows |-> [tbl \in Tables |-> 0], hasOrder |-> FALSE,
          tableOrder |-> <<>>]

\* The entry of another application in a document for several applications.
OtherApp == "otherApp"

OtherDoc == [rows |-> [tbl \in Tables |-> IF tbl = "u" THEN 1 ELSE 0],
             hasOrder |-> TRUE, tableOrder |-> <<"u">>]

\* No procedure of a version module was invoked.
NoHandover == [database |-> None, getNewDbConnection |-> None,
               shortcutAttrs |-> {}]

\* No document: the command loads nothing.
NoFixture == [kind |-> "none", apps |-> <<>>, self |-> NoDoc]

\* Fixture documents: the whole document is the `self` mapping (apps is
\* empty), or it has the key 'self' and the entry of another application, in
\* either iteration order.
Fixtures ==
    { [kind |-> "fixture", apps |-> a, self |-> d] :
        a \in {<<>>, <<"self">>, <<"self", OtherApp>>, <<OtherApp, "self">>},
        d \in Docs }

\* Data files of importData: a list of {name, rows}, which is its own order.
DataFiles ==
    { [kind |-> "data", apps |-> <<>>, self |-> d] :
        d \in {e \in Docs : e.hasOrder} }

\* A command starts: a fresh process, given the document fx.
BeginWith(o, ctx, at, fx) ==
    /\ Idle
    /\ op' = o
    /\ context' = ctx
    /\ pc' = at
    /\ currentVersion' = None
    /\ targetVersion' = o.targetVersion
    /\ referenceVersion' = o.referenceVersion
    /\ trimVersion' = o.trimVersion
    /\ response' = ""
    /\ asked' = 0
    /\ conns' = {}
    /\ opened' = {}
    /\ calls' = <<>>
    /\ log' = {}
    /\ outcome' = Running
    /\ inspected' = Running
    /\ before' = metadata
    /\ follows' = lastUpgraded
    /\ lastUpgraded' = None
    /\ ran' = <<>>
    /\ followsInstall' =
          IF op.name = "installSchema" /\ outcome.status = "returned"
          THEN op.script ELSE None
    /\ fixture' = fx
    /\ pos' = 1
    /\ committed' = {}
    /\ attempts' = <<>>
    /\ handoffs' = <<>>
    /\ handed' = NoHandover
    /\ UNCHANGED <<package, metadata>>

\* A command that loads no document starts.
Begin(o, ctx, at) == BeginWith(o, ctx, at, NoFixture)

\* A command ends with outcome out.
End(out) ==
    /\ pc' = "done"
    /\ outcome' = out

StartGetSchemaVersion ==
    Begin([NoArgs EXCEPT !.name = "getSchemaVersion"], NoContext, "inspect")

StartUpgrade ==
    \E t \in Versions \cup {None} :
        Begin([NoArgs EXCEPT !.name = "upgrade", !.targetVersion = t],
              NoContext, "inspect")

StartOverlay ==
    \E t \in Versions \cup {None} :
        Begin([NoArgs EXCEPT !.name = "overlay", !.targetVersion = t],
              NoContext, "inspect")

\* trim reading the installed version whether or not a reference version is
\* given.
StartTrim_AlwaysInspects ==
    \E r \in Versions \cup {None}, t \in Versions \cup {None} :
        Begin([NoArgs EXCEPT !.name = "trim", !.referenceVersion = r,
                             !.trimVersion = t],
              NoContext, "inspect")

\* trim reads the installed version only when no reference version is given.
StartTrim ==
    \E r \in Versions \cup {None}, t \in Versions \cup {None} :
        Begin([NoArgs EXCEPT !.name = "trim", !.referenceVersion = r,
                             !.trimVersion = t],
              NoContext, IF r = None THEN "inspect" ELSE "resolve")

\* getSchemaVersion opens its connection: getMysqlConnection fails when the
\* database does not exist.
InspectConnect ==
    /\ pc = "inspect"
    /\ IF metadata = "NoDb"
       THEN /\ End(Raised("OperationalError", "connect", None, ""))
            /\ UNCHANGED <<conns, opened, inspected>>
       ELSE /\ pc' = "query"
            /\ conns' = conns \cup {"inspect"}
            /\ opened' = opened \cup {"inspect"}
            /\ UNCHANGED <<outcome, inspected>>
    /\ UNCHANGED <<package, shell, loader, handed, context, metadata, op, locals, calls, log, history>>

\* Inspected closing the connection only when the query gave a result.
Inspected_LeaksOnRaise(res) ==
    /\ pc = "query"
    /\ inspected' = res
    /\ conns' = IF res = Returned(None) \/ res.status = "raised"
                THEN conns ELSE conns \ {"inspect"}
    /\ IF res.status = "raised"
       THEN /\ End(res)
            /\ UNCHANGED locals
       ELSE IF op.name = "getSchemaVersion"
       THEN /\ End(res)
            /\ UNCHANGED locals
       ELSE IF op.name = "trim"
       THEN /\ pc' = "resolve"
            /\ referenceVersion' = res.version
            /\ UNCHANGED <<outcome, currentVersion, targetVersion, trimVersion,
                           response, asked>>
       ELSE /\ pc' = "resolve"
            /\ currentVersion' = res.version
            /\ UNCHANGED <<outcome, targetVersion, referenceVersion, trimVersion,
                           response, asked>>
    /\ UNCHANGED <<package, shell, loader, handed, context, metadata, op, opened, calls, log, history>>

\* Inspected that leaves the connection open.
Inspected_KeepsOpen(res) ==
    /\ pc = "query"
    /\ inspected' = res
    /\ conns' = conns
    /\ IF res.status = "raised"
       THEN /\ End(res)
            /\ UNCHANGED locals
       ELSE IF op.name = "getSchemaVersion"
       THEN /\ End(res)
            /\ UNCHANGED locals
       ELSE IF op.name = "trim"
       THEN /\ pc' = "resolve"
            /\ referenceVersion' = res.version
            /\ UNCHANGED <<outcome, currentVersion, targetVersion, trimVersion,
                           response, asked>>
       ELSE /\ pc' = "resolve"
            /\ currentVersion' = res.version
            /\ UNCHANGED <<outcome, targetVersion, referenceVersion, trimVersion,
                           response, asked>>
    /\ UNCHANGED <<package, shell, loader, handed, context, metadata, op, opened, calls, log, history>>

\* The inspection's result reaches the command that asked for it; the
\* connection is closed on the way out.
Inspected(res) ==
    /\ pc = "query"
    /\ inspected' = res
    /\ conns' = conns \ {"inspect"}
    /\ IF res.status = "raised"
       THEN /\ End(res)
            /\ UNCHANGED locals
       ELSE IF op.name = "getSchemaVersion"
       THEN /\ End(res)
            /\ UNCHANGED locals
       ELSE IF op.name = "trim"
       THEN /\ pc' = "resolve"
            /\ referenceVersion' = res.version
            /\ UNCHANGED <<outcome, currentVersion, targetVersion, trimVersion,
                           response, asked>>
       ELSE /\ pc' = "resolve"
            /\ currentVersion' = res.version
            /\ UNCHANGED <<outcome, targetVersion, referenceVersion, trimVersion,
                           response, asked>>
    /\ UNCHANGED <<package, shell, loader, handed, context, metadata, op, opened, calls, log, history>>

InspectQuery == Inspected(getSchemaVersion(metadata))

\* Any other failure of the query.
InspectQueryFails ==
    Inspected(Raised("ProgrammingError", "query", None, ""))

Resolved(r, next) ==
    /\ IF r.out.status = "raised"
       THEN End(r.out)
       ELSE /\ pc' = next
            /\ UNCHANGED outcome
    /\ UNCHANGED <<package, shell, loader, handed, context, metadata, op, currentVersion, response, asked,
                   conns, opened, calls, log, inspected, history>>

UpgradeResolve ==
    /\ pc = "resolve"
    /\ op.name = "upgrade"
    /\ LET r == upgradeResolve(currentVersion, targetVersion)
       IN  /\ Resolved(r, "connect")
           /\ targetVersion' = r.target
    /\ UNCHANGED <<referenceVersion, trimVersion>>

OverlayResolve ==
    /\ pc = "resolve"
    /\ op.name = "overlay"
    /\ LET r == overlayResolve(currentVersion, targetVersion)
       IN  /\ Resolved(r, "connect")
           /\ targetVersion' = r.target
    /\ UNCHANGED <<referenceVersion, trimVersion>>

TrimResolve ==
    /\ pc = "resolve"
    /\ op.name = "trim"
    /\ LET r == trimResolve(referenceVersion, trimVersion)
       IN  /\ Resolved(r, "prompt")
           /\ trimVersion' = r.trim
    /\ UNCHANGED <<referenceVersion, targetVersion>>

\* The hand-over without the copy: the connection is set in the plugin's
\* own context.
handOver_NoCopy(ctx, db) ==
    [shared |-> [ctx EXCEPT !.database = db],
     given |-> [ctx EXCEPT !.database = db]]

\* context = self.context.copy(); context['database'] = db: the plugin's
\* context as it is left, and the context the procedure is given.
handOver(ctx, db) ==
    [shared |-> ctx, given |-> [ctx EXCEPT !.database = db]]

\* with closing(getMysqlConnection(self.context)) as db
MigrateConnect ==
    /\ pc = "connect"
    /\ pc' = "dispatch"
    /\ conns' = conns \cup {"migrate"}
    /\ opened' = opened \cup {"migrate"}
    /\ UNCHANGED <<package, shell, loader, handed, context, metadata, op, locals, calls, log, outcome,
                   inspected, history>>

\* Dispatch closing the connection only when the procedure returns.
Dispatch_LeaksOnRaise(call) ==
    /\ pc = "dispatch"
    /\ calls' = Append(calls, call)
    /\ \E ok \in BOOLEAN :
        IF ok
        THEN /\ metadata' = call.version
             /\ conns' = conns \ {"migrate"}
             /\ End(Returned(None))
             /\ lastUpgraded' = IF call.proc = "upgrade" THEN call.version
                                ELSE None
        ELSE /\ End(Raised("ModuleError", call.proc, call.version, ""))
             /\ UNCHANGED <<metadata, lastUpgraded, conns>>
    /\ context' = handOver(context, "migrate").shared
    /\ handed' = handOver(context, "migrate").given
    /\ UNCHANGED <<package, shell, loader, op, locals, opened, log, inspected, before, follows>>

\* The version module's procedure runs: it migrates and sets metadata.version
\* to its version, or it raises; the connection is closed either way.
Dispatch(call) ==
    /\ pc = "dispatch"
    /\ calls' = Append(calls, call)
    /\ conns' = conns \ {"migrate"}
    /\ \E ok \in BOOLEAN :
        IF ok
        THEN /\ metadata' = call.version
             /\ End(Returned(None))
             /\ lastUpgraded' = IF call.proc = "upgrade" THEN call.version
                                ELSE None
        ELSE /\ End(Raised("ModuleError", call.proc, call.version, ""))
             /\ UNCHANGED <<metadata, lastUpgraded>>
    /\ context' = handOver(context, "migrate").shared
    /\ handed' = handOver(context, "migrate").given
    /\ UNCHANGED <<package, shell, loader, op, locals, opened, log, inspected, before, follows>>

UpgradeDispatch ==
    /\ op.name = "upgrade"
    /\ Dispatch(upgradeCall(targetVersion, currentVersion))

OverlayDispatch ==
    /\ op.name = "overlay"
    /\ Dispatch(overlayCall(targetVersion, currentVersion))

\* askYesOrNoQuestion that returns whatever is typed first.
AskYesOrNo_AcceptsAnything ==
    /\ pc = "prompt"
    /\ \E cfm \in {"y", "n", ""} :
        /\ response' = cfm
        /\ pc' = "answered"
        /\ UNCHANGED asked
    /\ UNCHANGED <<package, shell, loader, handed, context, metadata, op, currentVersion, targetVersion,
                   referenceVersion, trimVersion, trace, history>>

\* askYesOrNoQuestion: asks again until the answer is y or n.
AskYesOrNo ==
    /\ pc = "prompt"
    /\ \E cfm \in {"y", "n", ""} :
        IF cfm # "y" /\ cfm # "n"
        THEN /\ asked < MaxPrompts
             /\ asked' = asked + 1
             /\ UNCHANGED <<pc, response>>
        ELSE /\ response' = cfm
             /\ pc' = "answered"
             /\ UNCHANGED asked
    /\ UNCHANGED <<package, shell, loader, handed, context, metadata, op, currentVersion, targetVersion,
                   referenceVersion, trimVersion, trace, history>>

TrimDispatch ==
    /\ pc = "answered"
    /\ LET r == trimDispatch(response)
       IN  /\ End(r.out)
           /\ log' = log \cup r.log
    /\ UNCHANGED <<package, shell, loader, handed, context, metadata, op, locals, conns, opened, calls,
                   inspected, history>>

\* AppPlugin.start in a fresh application process, whose context may
\* already hold a connection or a connection factory.
StartApp ==
    \E db \in {"absent", "given"}, f \in {"absent", "given"} :
        /\ db = "given" => metadata # "NoDb"
        /\ Begin([NoArgs EXCEPT !.name = "start"],
                 [database |-> db, getNewDbConnection |-> f,
                  shortcutAttrs |-> {}],
                 "appConnect")

\* start, the context entries: a connection and a factory unless given.
AppConnect ==
    /\ pc = "appConnect"
    /\ IF context.database = "absent" /\ metadata = "NoDb"
       THEN /\ End(Raised("OperationalError", "connect", None, ""))
            /\ UNCHANGED <<conns, opened, context>>
       ELSE /\ pc' = "appCheck"
            /\ conns' = conns \cup {"database"}
            /\ opened' = IF context.database = "absent"
                         THEN opened \cup {"database"} ELSE opened
            /\ context' = [context EXCEPT
                  !.database = IF @ = "absent" THEN "opened" ELSE @,
                  !.getNewDbConnection = IF @ = "absent" THEN "partial" ELSE @]
            /\ UNCHANGED outcome
    /\ UNCHANGED <<package, shell, loader, handed, metadata, op, locals, calls, log, inspected,
                   history>>

\* start, the rest: self.checkDbSchemaVersion(), then the shortcut
\* attributes.
AppCheck ==
    /\ pc = "appCheck"
    /\ LET res == getCurrDbSchemaVersion(metadata)
       IN  /\ inspected' = res
           /\ IF res.status = "raised"
              THEN /\ End(res)
                   /\ UNCHANGED <<currentVersion, context>>
              ELSE /\ currentVersion' = res.version
                   /\ End(checkDbSchemaVersion(res.version))
                   /\ context' =
                        IF checkDbSchemaVersion(res.version).status = "returned"
                        THEN [context EXCEPT !.shortcutAttrs =
                                @ \cup {"database", "getNewDbConnection"}]
                        ELSE context
    /\ UNCHANGED <<package, shell, loader, handed, metadata, op, targetVersion, referenceVersion,
                   trimVersion, response, asked, conns, opened, calls, log,
                   history>>

\* What a SQL file may leave the database as.
Scripts == {"NoTable", "NoRow"} \cup Versions

\* execute <sqlFilePath>
StartExecute ==
    \E f \in Scripts :
        Begin([NoArgs EXCEPT !.name = "execute", !.script = f],
              NoContext, "execute")

\* installSchema, with the schema file of context['mySchemaFilePath'], which
\* sets metadata.version.
StartInstallSchema ==
    \E f \in Versions :
        Begin([NoArgs EXCEPT !.name = "installSchema", !.script = f],
              NoContext, "drop")

\* One run of the mysql client for a step of installSchema.
InstallStep(step, effect) ==
    /\ pc = step
    /\ op.name = "installSchema"
    /\ \E rc \in ExitStatuses(step, metadata) :
        /\ ran' = Append(ran, [cmd |-> step, rc |-> rc])
        /\ IF checkCall(step, rc).status = "raised"
           THEN /\ End(checkCall(step, rc))
                /\ UNCHANGED <<metadata, log>>
           ELSE /\ pc' = installSchemaNext(step)
                /\ metadata' = effect
                /\ log' = IF step = "drop" THEN log \cup {"Creating database..."}
                          ELSE log
                /\ UNCHANGED outcome
    /\ UNCHANGED <<package, loader, handed, context, op, locals, conns, opened, calls,
                   inspected, history, followsInstall>>

InstallDrop == InstallStep("drop", dropDatabase(metadata))

InstallCreate == InstallStep("create", createDatabase(metadata))

\* execute: the file is run by the mysql client; also the last step of
\* installSchema.
ExecuteScript ==
    /\ pc = "execute"
    /\ \E rc \in ExitStatuses("execute", metadata) :
        /\ ran' = Append(ran, [cmd |-> "execute", rc |-> rc])
        /\ IF checkCall("execute", rc).status = "raised"
           THEN /\ End(checkCall("execute", rc))
                /\ metadata' \in PartlyRun(metadata, op.script)
                /\ log' = log \cup {"Executing SQL"}
           ELSE /\ End(Returned(None))
                /\ metadata' = runScript(metadata, op.script)
                /\ log' = log \cup {"Executing SQL", "Executed file"}
    /\ UNCHANGED <<package, loader, handed, context, op, locals, conns, opened, calls,
                   inspected, history, followsInstall>>

\* mergeFixture <fixtureFilePath> [--ignoreConflicts]
StartMergeFixture ==
    \E fx \in Fixtures, ic \in BOOLEAN :
        BeginWith([NoArgs EXCEPT !.name = "mergeFixture", !.ignoreConflicts = ic],
                  NoContext, "load", fx)

\* importData <jsonDataFilePath> [--ignoreConflicts]
StartImportData ==
    \E fx \in DataFiles, ic \in BOOLEAN :
        BeginWith([NoArgs EXCEPT !.name = "importData", !.ignoreConflicts = ic],
                  NoContext, "load", fx)

\* db = getMysqlConnection(self.context), then the file is read.
LoadConnect ==
    /\ pc = "load"
    /\ IF metadata = "NoDb"
       THEN /\ End(Raised("OperationalError", "connect", None, ""))
            /\ UNCHANGED <<conns, opened>>
       ELSE /\ pc' = "install"
            /\ conns' = conns \cup {"load"}
            /\ opened' = opened \cup {"load"}
            /\ UNCHANGED outcome
    /\ UNCHANGED <<package, shell, loader, handed, context, metadata, op, locals,
                   calls, log, inspected, history>>

\* Another application's entry: written to a temporary file, then the
\* operator is asked to press ENTER.
InstallHandoff ==
    /\ pc = "install"
    /\ pos <= Len(Plan)
    /\ Plan[pos].kind = "handoff"
    /\ handoffs' = Append(handoffs, Plan[pos].app)
    /\ pos' = pos + 1
    /\ UNCHANGED <<package, shell, handed, fixture, committed, attempts, context,
                   metadata, pc, op, locals, trace, history>>

\* One row of mergeFixture: the insert is executed and either takes effect
\* at once (autocommit) or raises IntegrityError.
InstallRow ==
    /\ pc = "install"
    /\ op.name = "mergeFixture"
    /\ pos <= Len(Plan)
    /\ Plan[pos].kind = "insert"
    /\ \E ok \in BOOLEAN :
        /\ attempts' = Append(attempts, [app |-> Plan[pos].app,
                                          table |-> Plan[pos].table,
                                          row |-> Plan[pos].row, ok |-> ok])
        /\ IF ok
           THEN /\ committed' = committed \cup
                        {<<Plan[pos].app, Plan[pos].table, Plan[pos].row>>}
                /\ pos' = pos + 1
                /\ UNCHANGED <<pc, outcome, log>>
           ELSE IF onConflict(op.ignoreConflicts) = "continue"
           THEN /\ log' = log \cup {"Ignoring conflict"}
                /\ pos' = pos + 1
                /\ UNCHANGED <<pc, outcome, committed>>
           ELSE /\ End(Raised("IntegrityError", "insert", None, ""))
                /\ UNCHANGED <<pos, committed, log>>
    /\ UNCHANGED <<package, shell, handed, fixture, handoffs, context, metadata, op,
                   locals, conns, opened, calls, inspected, history>>

\* One row of importData: `database` is not a name of that function.
ImportRow ==
    /\ pc = "install"
    /\ op.name = "importData"
    /\ pos <= Len(Plan)
    /\ End(Raised("NameError", "database", None, ""))
    /\ UNCHANGED <<package, shell, loader, handed, context, metadata, op, locals,
                   conns, opened, calls, log, inspected, history>>

\* The loops are over: the command returns; db is not closed.
InstallDone ==
    /\ pc = "install"
    /\ pos > Len(Plan)
    /\ End(Returned(None))
    /\ UNCHANGED <<package, shell, loader, handed, context, metadata, op, locals,
                   conns, opened, calls, log, inspected, history>>

Init ==
    /\ versions \in Catalogs
    /\ modules \in [Versions -> ModuleShapes]
    /\ metadata \in DbStates
    /\ context = NoContext
    /\ pc = "idle"
    /\ op = NoArgs
    /\ currentVersion = None
    /\ targetVersion = None
    /\ referenceVersion = None
    /\ trimVersion = None
    /\ response = ""
    /\ asked = 0
    /\ conns = {}
    /\ opened = {}
    /\ calls = <<>>
    /\ log = {}
    /\ outcome = Running
    /\ inspected = Running
    /\ before = metadata
    /\ follows = None
    /\ lastUpgraded = None
    /\ ran = <<>>
    /\ followsInstall = None
    /\ fixture = NoFixture
    /\ pos = 1
    /\ committed = {}
    /\ attempts = <<>>
    /\ handoffs = <<>>
    /\ handed = NoHandover

Next ==
    \/ StartGetSchemaVersion
    \/ StartUpgrade
    \/ StartOverlay
    \/ StartTrim
    \/ StartApp
    \/ AppConnect
    \/ AppCheck
    \/ InspectConnect
    \/ InspectQuery
    \/ UpgradeResolve
    \/ OverlayResolve
    \/ TrimResolve
    \/ MigrateConnect
    \/ UpgradeDispatch
    \/ OverlayDispatch
    \/ AskYesOrNo
    \/ TrimDispatch

Spec == Init /\ [][Next]_vars

\* The same with query failures of any other kind.
SpecFault == Init /\ [][Next \/ InspectQueryFails]_vars

\* The schema commands on their own: execute, installSchema and
\* getSchemaVersion, with a schema package that plays no part.
InitSchema ==
    /\ Init
    /\ versions = AllVersions
    /\ modules = [v \in Versions |-> NoModule]

NextSchema ==
    \/ StartExecute
    \/ StartInstallSchema
    \/ StartGetSchemaVersion
    \/ InstallDrop
    \/ InstallCreate
    \/ ExecuteScript
    \/ InspectConnect
    \/ InspectQuery

SpecSchema == InitSchema /\ [][NextSchema]_vars

\* The loading commands on their own, with a schema package that plays no
\* part.
InitFixture ==
    /\ Init
    /\ versions = AllVersions
    /\ modules = [v \in Versions |-> NoModule]

NextFixture ==
    \/ StartMergeFixture
    \/ StartImportData
    \/ LoadConnect
    \/ InstallHandoff
    \/ InstallRow
    \/ ImportRow
    \/ InstallDone

SpecFixture == InitFixture /\ [][NextFixture]_vars

\* ------------------------------------------------------------- properties

Migration == {"upgrade", "overlay"}

NoSchemaInstalled == Raised("CommandError", "NoSchemaInstalled", None, "")

MigrationOpened == "migrate" \in opened

\* The version an upgrade or overlay is to resolve: the one given, or the
\* latest of the registry.
WantedTarget == IF op.targetVersion = None THEN Last(versions)
                ELSE op.targetVersion

\* The version a trim is to resolve: the one given, or the installed one.
WantedReference == IF op.referenceVersion = None THEN inspected.version
                   ELSE op.referenceVersion

\* The command has come to resolve a version module: the installed version
\* was read where it is needed, and no precondition of the code turned the
\* command down before.
ReachedResolution ==
    \/ /\ op.name \in Migration
       /\ inspected.status = "returned"
       /\ inspected.version \notin {None, op.targetVersion}
    \/ /\ op.name = "trim"
       /\ \/ op.referenceVersion # None
          \/ inspected.status = "returned" /\ inspected.version # None

WantedVersion == IF op.name = "trim" THEN WantedReference ELSE WantedTarget

\* C1: an upgrade or overlay whose inspection returned None ends with the
\* no-schema-installed error; it opens no migration connection and invokes
\* no version module procedure.
C1_NoSchemaRejected ==
    (op.name \in Migration /\ inspected = Returned(None)) =>
        /\ pc \in {"resolve", "done"}
        /\ ~MigrationOpened
        /\ conns = {}
        /\ calls = <<>>
        /\ pc = "done" => outcome = NoSchemaInstalled

C1_Witness ==
    /\ pc = "done"
    /\ op.name = "overlay"
    /\ op.targetVersion # None
    /\ inspected = Returned(None)
    /\ importModule(op.targetVersion).caps = Capabilities

\* C2: an upgrade or overlay without a target version, run when the
\* installed version is the latest of the registry, ends with the
\* already-at-version error and invokes no version module procedure.
C2_DefaultTargetRejected ==
    (/\ pc = "done"
     /\ op.name \in Migration
     /\ op.targetVersion = None
     /\ inspected = Returned(Last(versions))) =>
        /\ outcome.kind = "AlreadyAtVersion"
        /\ calls = <<>>

\* C3: an upgrade to v right after an upgrade that set metadata.version to v
\* ends with the already-at-version error; it opens no migration connection,
\* invokes no version module procedure and leaves metadata.version alone.
C3_RepeatedUpgradeRejected ==
    (op.name = "upgrade" /\ follows # None /\ op.targetVersion = follows) =>
        /\ ~MigrationOpened
        /\ calls = <<>>
        /\ metadata = before
        /\ metadata = follows
        /\ pc = "done" =>
             outcome = Raised("CommandError", "AlreadyAtVersion", follows, "")

C3_Witness ==
    /\ pc = "done"
    /\ op.name = "upgrade"
    /\ follows = "2"
    /\ op.targetVersion = "2"
    /\ outcome.kind = "AlreadyAtVersion"

\* C4: an upgrade, overlay or trim whose version module exists and lacks the
\* procedure of that name ends with the unsupported-operation error, which
\* names the version and the procedure, whether the version was given or
\* defaulted; it opens no migration connection.
C4_UnsupportedRejected ==
    (/\ op.name \in Migration \cup {"trim"}
     /\ ReachedResolution
     /\ importModule(WantedVersion).present
     /\ op.name \notin importModule(WantedVersion).caps) =>
        /\ ~MigrationOpened
        /\ calls = <<>>
        /\ pc \in {"resolve", "done"}
        /\ pc = "done" =>
             outcome = Raised("CommandError", "UnsupportedOperation",
                              WantedVersion, op.name)

C4_Witness ==
    /\ pc = "done"
    /\ op.name = "trim"
    /\ op.referenceVersion = None
    /\ outcome.kind = "UnsupportedOperation"
    /\ outcome.version = before
    /\ outcome.capability = "trim"

\* C5: a command that comes to resolve a version resolves it when the
\* version is in the registry's list, and ends with the unknown-version
\* error, a usage error, without a migration connection when it is not.
C5_ResolvesCatalogMembers ==
    (/\ pc = "done"
     /\ op.name \in Migration \cup {"trim"}
     /\ ReachedResolution) =>
        IF \E i \in 1..Len(versions) : versions[i] = WantedVersion
        THEN outcome.kind # "NoModule"
        ELSE /\ outcome.status = "raised"
             /\ outcome.type = "CommandError"
             /\ outcome.kind = "UnknownVersion"
             /\ ~MigrationOpened

\* C6: a trim the operator confirmed opened a connection, invoked the trim
\* procedure of the reference version's module once, with the trim version
\* resolved, and closed the connection.
C6_ConfirmedTrimDispatched ==
    (pc = "done" /\ op.name = "trim" /\ response = "y") =>
        /\ MigrationOpened
        /\ conns = {}
        /\ calls = <<[version |-> referenceVersion, proc |-> "trim",
                      arg |-> trimVersion]>>

\* C7: a trim the operator declined ends without a migration connection,
\* without a trim procedure invoked and with metadata.version as it was, and
\* logs that the trim was not performed; a trim procedure is invoked only
\* after the answer y.
C7_DeclinedTrimInert ==
    /\ \A i \in 1..Len(calls) : calls[i].proc = "trim" => response = "y"
    /\ (op.name = "trim" /\ response # "y") =>
          /\ ~MigrationOpened
          /\ calls = <<>>
          /\ metadata = before
    /\ (pc = "done" /\ op.name = "trim" /\ response = "n") =>
          /\ outcome = Returned(None)
          /\ "Trim not performed" \in log
          /\ conns = {}

C7_Witness ==
    /\ pc = "done"
    /\ op.name = "trim"
    /\ response = "n"
    /\ op.referenceVersion = None
    /\ "inspect" \in opened

\* C8: trim takes the installed version for an omitted reference version
\* and ends with the no-schema-installed error when there is none; it takes
\* the reference module's previousVersion for an omitted trim version and
\* keeps a trim version that was given.
C8_TrimDefaults ==
    op.name = "trim" =>
        /\ (op.referenceVersion = None /\ inspected = Returned(None)) =>
              /\ pc \in {"resolve", "done"}
              /\ pc = "done" => outcome = NoSchemaInstalled
        /\ pc \in {"prompt", "answered"} \/ response # "" =>
              /\ referenceVersion =
                    IF op.referenceVersion = None THEN before
                    ELSE op.referenceVersion
              /\ trimVersion =
                    IF op.trimVersion = None
                    THEN importModule(referenceVersion).previousVersion
                    ELSE op.trimVersion
              /\ trimVersion # None

C8_Witness ==
    /\ pc = "prompt"
    /\ op.referenceVersion = None
    /\ op.trimVersion = None
    /\ trimVersion = OlderVersion
    /\ referenceVersion = "2"

C8_WitnessGiven ==
    /\ pc = "prompt"
    /\ op.referenceVersion = "1"
    /\ op.trimVersion = "2"
    /\ before = "NoTable"

\* C9: an inspection of the installed version gives None when the metadata
\* table does not exist, the schema-read error when the table holds no
\* version row, and the stored value otherwise; any other failure of the
\* query ends the command as it is.
C9_InspectionOutcomes ==
    inspected.status # "running" =>
        IF inspected.kind = "query"
        THEN pc = "done" /\ outcome = inspected
        ELSE /\ before = "NoTable" => inspected = Returned(None)
             /\ before = "NoRow" =>
                   inspected.status = "raised" /\ inspected.kind = "SchemaRead"
             /\ before \in Versions => inspected = Returned(before)

\* C10: an upgrade (an overlay) that succeeds has invoked one procedure,
\* once: the upgrade (overlay) procedure of the target version's module, with
\* fromVersion the installed version read at the start; no upgrade or overlay
\* ever invokes a procedure of another name or of another version's module.
C10_SingleDispatch ==
    op.name \in Migration =>
        /\ \A i \in 1..Len(calls) :
              calls[i] = [version |-> WantedTarget, proc |-> op.name,
                          arg |-> before]
        /\ Len(calls) <= 1
        /\ (pc = "done" /\ outcome.status = "returned") =>
              /\ Len(calls) = 1
              /\ before \in Versions
              /\ inspected = Returned(before)

C10_Witness ==
    /\ pc = "done"
    /\ op.name = "overlay"
    /\ outcome.status = "returned"
    /\ op.targetVersion = "1"
    /\ before = "2"
    /\ importModule("1").caps = Capabilities
    /\ importModule("2").caps = Capabilities

\* C11: the migration connection of an upgrade or overlay is open only
\* while the version module's procedure is due, and is closed when the
\* command has ended, whether the procedure returned or raised.
C11_MigrationConnectionReleased ==
    op.name \in Migration =>
        /\ "migrate" \in conns => pc = "dispatch"
        /\ pc = "done" => conns = {}

C11_Witness ==
    /\ pc = "done"
    /\ op.name = "upgrade"
    /\ MigrationOpened
    /\ outcome.type = "ModuleError"
    /\ Len(calls) = 1

\* C12: the connection getSchemaVersion opens is closed once the inspection
\* has given its result: a version, None, the schema-read error or any other
\* query error.
C12_InspectionConnectionReleased ==
    op.name \in Migration \cup {"trim", "getSchemaVersion"} =>
        /\ "inspect" \in conns => pc = "query"
        /\ inspected.status # "running" => "inspect" \notin conns
        /\ pc = "done" => conns = {}

C12_Witness ==
    /\ pc = "done"
    /\ op.name = "getSchemaVersion"
    /\ "inspect" \in opened
    /\ inspected = Raised("ProgrammingError", "query", None, "")

\* C13 as claimed: an installSchema invoked while a schema is installed is
\* turned down, and the database is neither dropped nor replaced.
C13_RejectedWhenInstalled ==
    (op.name = "installSchema" /\ before \in Versions) =>
        /\ \A i \in 1..Len(ran) : ran[i].rc # 0
        /\ metadata = before
        /\ pc = "done" => outcome.status = "raised"

\* C13 as the code has it: installSchema tests nothing before it acts. In
\* every state of the database its first step is the drop; once the drop
\* succeeded the database that was there is gone, and a run that returns
\* leaves the database as the schema file makes it; the only error it ends
\* with is a failed run of the mysql client.
C13_InstallReplaces ==
    op.name = "installSchema" =>
        /\ pc # "drop" => Len(ran) >= 1 /\ ran[1].cmd = "drop"
        /\ pc = "create" => metadata = "NoDb"
        /\ (pc = "done" /\ outcome.status = "returned") =>
              /\ metadata = op.script
              /\ \A i \in 1..Len(ran) : ran[i].rc = 0
        /\ (pc = "done" /\ outcome.status = "raised") =>
              /\ outcome.type = "CalledProcessError"
              /\ ran[Len(ran)].rc # 0
              /\ outcome.kind = "drop" => metadata = before

C13_Witness ==
    /\ pc = "done"
    /\ op.name = "installSchema"
    /\ before = "2"
    /\ op.script = "1"
    /\ outcome.status = "returned"
    /\ metadata = "1"

\* C14: a getSchemaVersion that directly follows an installSchema that
\* returned gives the version the schema file sets, whatever the database
\* held before the installation.
C14_InstallThenRead ==
    (op.name = "getSchemaVersion" /\ followsInstall # None) =>
        /\ metadata = followsInstall
        /\ pc = "done" =>
              /\ outcome = Returned(followsInstall)
              /\ inspected = Returned(followsInstall)

C14_Witness ==
    /\ pc = "done"
    /\ op.name = "getSchemaVersion"
    /\ followsInstall = "1"
    /\ outcome = Returned("1")

\* C20: execute runs the mysql client once on the file; it ends with the
\* script-execution error when the exit status is not zero and returns
\* otherwise; it reads no installed version, opens no connection and is
\* taken in every state of the database.
C20_ExecutePassthrough ==
    op.name = "execute" =>
        /\ inspected = Running
        /\ opened = {}
        /\ pc \in {"execute", "done"}
        /\ pc = "execute" => ran = <<>>
        /\ pc = "done" =>
              /\ Len(ran) = 1
              /\ ran[1].cmd = "execute"
              /\ ran[1].rc # 0 =>
                    outcome = Raised("CalledProcessError", "execute", None, "")
              /\ ran[1].rc = 0 =>
                    outcome = Returned(None) /\ metadata = op.script

C20_Witness ==
    /\ pc = "done"
    /\ op.name = "execute"
    /\ before \in Versions
    /\ ran = <<[cmd |-> "execute", rc |-> 1]>>
    /\ outcome.type = "CalledProcessError"

C20_WitnessUninitialized ==
    /\ pc = "done"
    /\ op.name = "execute"
    /\ before = "NoTable"
    /\ outcome = Returned(None)

\* The commands that load rows.
Loaders == {"mergeFixture", "importData"}

\* The rows the insert of which took effect, as the attempts record them.
Inserted ==
    { <<attempts[i].app, attempts[i].table, attempts[i].row>> :
        i \in {j \in 1..Len(attempts) : attempts[j].ok} }

\* C15: without ignoreConflicts the first insert that raises an integrity
\* violation ends the load with that error; no row of the same table is
\* inserted after it, and the rows inserted before it stay in the database.
C15_ConflictFails ==
    (op.name \in Loaders /\ ~op.ignoreConflicts) =>
        /\ \A i \in 1..Len(attempts) :
              ~attempts[i].ok =>
                  /\ pc = "done"
                  /\ outcome = Raised("IntegrityError", "insert", None, "")
                  /\ \A j \in 1..Len(attempts) :
                        j > i => attempts[j].table # attempts[i].table
        /\ committed = Inserted

C15_Witness ==
    /\ pc = "done"
    /\ op.name = "mergeFixture"
    /\ ~op.ignoreConflicts
    /\ Len(attempts) = 2
    /\ attempts[1].ok
    /\ ~attempts[2].ok
    /\ committed = {<<"self", "t", 1>>}
    /\ pos < Len(Plan)
    /\ Plan[pos + 1].table = Plan[pos].table

\* The rows of the tables the document lists, in table order and row order.
ListedRows == installTables("self", fixture.self, fixture.self.tableOrder)

\* Every row of every table of the `self` mapping was put to the database.
EveryRowAttempted ==
    \A tbl \in Tables : \A r \in 1..fixture.self.rows[tbl] :
        \E i \in 1..Len(attempts) :
            /\ attempts[i].app = "self"
            /\ attempts[i].table = tbl
            /\ attempts[i].row = r

\* C16: with ignoreConflicts a load whose connection was opened returns
\* without error; the rows of the listed tables were each put to the database
\* once, in table order and row order; a row that conflicted was skipped and
\* logged, every other row is in the database.
C16_ConflictsSkipped ==
    (op.name \in Loaders /\ op.ignoreConflicts /\ pc = "done"
        /\ opened # {}) =>
        /\ outcome = Returned(None)
        /\ Len(attempts) = Len(ListedRows)
        /\ \A i \in 1..Len(attempts) :
              /\ attempts[i].table = ListedRows[i].table
              /\ attempts[i].row = ListedRows[i].row
              /\ ~attempts[i].ok => "Ignoring conflict" \in log
        /\ committed = Inserted

\* C17: a document with the key 'self' has the rows of the tables of its
\* `self` entry inserted; no insert is executed for an entry of another
\* application, which is handed to the operator and nothing else, in
\* whatever order the entries come.
C17_OnlySelfInserted ==
    (op.name = "mergeFixture" /\ Len(fixture.apps) >= 1) =>
        /\ \A i \in 1..Len(attempts) : attempts[i].app = "self"
        /\ \A i \in 1..Len(handoffs) : handoffs[i] # "self"
        /\ (pc = "done" /\ outcome = Returned(None)) =>
              /\ EveryRowAttempted
              /\ \A i \in 1..Len(fixture.apps) :
                    fixture.apps[i] # "self" =>
                        \E j \in 1..Len(handoffs) : handoffs[j] = fixture.apps[i]

\* C18: a load that returns has executed an insert for every row of every
\* table of the document, table by table in the order of tableOrder where
\* the document gives one, and row by row.
C18_EveryRowInserted ==
    (op.name = "mergeFixture" /\ pc = "done" /\ outcome = Returned(None)) =>
        /\ EveryRowAttempted
        /\ \A i, j \in 1..Len(attempts) :
              (i < j /\ attempts[i].table = attempts[j].table) =>
                  attempts[i].row < attempts[j].row
        /\ \A i \in 1..Len(ListedRows) :
              i <= Len(attempts) => attempts[i].table = ListedRows[i].table

\* C19: when a loading command has ended, by return or by error, the
\* connection it opened is closed.
C19_LoaderConnectionReleased ==
    (op.name \in Loaders /\ pc = "done") => conns = {}

\* The steps of installSchema, in the order of the code.
InstallOrder == <<"drop", "create", "execute">>

\* C21: installSchema runs the drop, the creation and the schema file in that
\* order, each once; a step runs only after every step before it exited with
\* status 0, a step that fails ends the command with an error, and a failed
\* creation leaves no database.
C21_InstallStepOrder ==
    op.name = "installSchema" =>
        /\ Len(ran) <= Len(InstallOrder)
        /\ \A i \in 1..Len(ran) :
              /\ ran[i].cmd = InstallOrder[i]
              /\ i < Len(ran) => ran[i].rc = 0
              /\ ran[i].rc # 0 =>
                    /\ pc = "done"
                    /\ outcome = Raised("CalledProcessError", ran[i].cmd, None, "")
        /\ (Len(ran) = 2 /\ ran[2].rc # 0) => metadata = "NoDb"
        /\ (pc = "done" /\ outcome.status = "returned") => Len(ran) = 3

C21_Witness ==
    /\ pc = "done"
    /\ op.name = "installSchema"
    /\ before \in Versions
    /\ ran = <<[cmd |-> "drop", rc |-> 0], [cmd |-> "create", rc |-> 1]>>
    /\ metadata = "NoDb"

C21_WitnessDropFails ==
    /\ pc = "done"
    /\ op.name = "installSchema"
    /\ ran = <<[cmd |-> "drop", rc |-> 1]>>
    /\ metadata = before

\* C22: while an upgrade or overlay runs, at most one of its connections is
\* open; the migration connection is opened only after the inspection's
\* connection was opened and closed, and none is open once the command ended.
C22_OneConnectionAtATime ==
    op.name \in Migration =>
        /\ Cardinality(conns) <= 1
        /\ "migrate" \in opened => "inspect" \in opened \ conns
        /\ pc = "done" => conns = {}

C22_Witness ==
    /\ pc = "dispatch"
    /\ op.name = "overlay"
    /\ opened = {"inspect", "migrate"}
    /\ conns = {"migrate"}

\* The operator has been asked to confirm the trim.
Prompted == pc \in {"prompt", "answered"} \/ asked > 0 \/ response # ""

\* Every resolution step of trim has succeeded: the reference version is
\* known, its module was found and has a trim function, and the trim version
\* is set.
TrimResolved ==
    /\ referenceVersion \in Versions
    /\ importModule(referenceVersion).present
    /\ hasattr(importModule(referenceVersion), "trim")
    /\ trimVersion # None

\* C23: trim asks the operator only once every resolution step has
\* succeeded, so that nothing fails between the operator's y and the
\* dispatch: a trim that was confirmed invokes the trim procedure.
C23_PromptAfterResolution ==
    op.name = "trim" =>
        /\ Prompted => TrimResolved
        /\ (pc = "done" /\ response = "y") =>
              /\ Len(calls) = 1
              /\ outcome.type \notin {"CommandError", "ImportError",
                                      "AttributeError", "NameError"}

\* C24: a trim given a reference version never inspects the installed
\* version: it opens no connection for it and is not turned down for a
\* missing schema or database, whatever the database holds; it resolves the
\* module of the version given, which need not be the installed one.
C24_GivenReferenceSkipsInspection ==
    (op.name = "trim" /\ op.referenceVersion # None) =>
        /\ pc \notin {"inspect", "query"}
        /\ inspected = Running
        /\ "inspect" \notin opened
        /\ referenceVersion = op.referenceVersion
        /\ outcome # NoSchemaInstalled
        /\ outcome.type # "OperationalError"
        /\ (TrimResolved /\ pc # "resolve") => Prompted

C24_Witness ==
    /\ pc = "prompt"
    /\ op.name = "trim"
    /\ op.referenceVersion = "1"
    /\ before = "NoTable"

C24_WitnessOtherVersion ==
    /\ pc = "answered"
    /\ op.name = "trim"
    /\ op.referenceVersion = "1"
    /\ before = "2"

\* The commands that invoke a procedure of a version module.
Delegating == Migration \cup {"trim"}

\* C25: the procedure of the version module is given the plugin's context
\* with 'database' set to the migration connection, as a copy: no step of an
\* upgrade, overlay or trim, whether the command succeeds or fails, changes
\* the plugin's own context or the schema package.
C25_ContextCopied ==
    /\ [](op.name \in Delegating =>
            /\ calls # <<>> =>
                  /\ handed = [context EXCEPT !.database = "migrate"]
                  /\ "migrate" \in opened
            /\ calls = <<>> => handed = NoHandover)
    /\ [][(op.name \in Delegating /\ op'.name = op.name /\ ~Idle) =>
            /\ context' = context
            /\ versions' = versions
            /\ modules' = modules]_vars

C25_Witness ==
    /\ pc = "done"
    /\ op.name = "upgrade"
    /\ outcome.type = "ModuleError"
    /\ handed.database = "migrate"
    /\ context = NoContext

\* What start publishes as shortcut attributes.
Shortcuts == {"database", "getNewDbConnection"}

\* C26: start returns only when the installed version is the last of the
\* registry, and then publishes the shortcut attributes; for any other
\* installed version and for a database without schema it raises
\* SchemaVersionMismatch; nothing is published when it raises; an entry
\* 'database' or 'getNewDbConnection' the context came with is kept as it is,
\* and no connection is opened in place of one that was given.
C26_StartChecksVersion ==
    /\ [](op.name = "start" =>
            /\ (pc = "done" /\ outcome.status = "returned") =>
                  /\ before = Last(versions)
                  /\ Shortcuts \subseteq context.shortcutAttrs
            /\ (pc = "done" /\ before \in Versions \cup {"NoTable"}
                  /\ before # Last(versions)) =>
                  outcome.type = "SchemaVersionMismatch"
            /\ outcome.status # "returned" => context.shortcutAttrs = {}
            /\ context.database = "given" => "database" \notin opened)
    /\ [][(op.name = "start" /\ op'.name = "start" /\ ~Idle) =>
            /\ context.database # "absent" =>
                  context'.database = context.database
            /\ context.getNewDbConnection # "absent" =>
                  context'.getNewDbConnection = context.getNewDbConnection]_vars

C26_Witness ==
    /\ pc = "done"
    /\ op.name = "start"
    /\ before = "NoTable"
    /\ outcome.type = "SchemaVersionMismatch"
    /\ context.database = "given"
    /\ context.getNewDbConnection = "partial"

C26_WitnessStarted ==
    /\ pc = "done"
    /\ op.name = "start"
    /\ outcome.status = "returned"
    /\ context.database = "opened"
    /\ context.getNewDbConnection = "given"

\* C27: the prompt of trim returns y or n and nothing else: while the
\* operator types anything else the command stays at the prompt, where it
\* has neither invoked a procedure, nor opened a connection, nor logged that
\* the trim was not performed, nor ended; it leaves the prompt exactly by an
\* answer y or n.
C27_PromptReturnsYesOrNo ==
    /\ [](op.name = "trim" =>
            /\ response \in {"", "y", "n"}
            /\ pc = "prompt" =>
                  /\ response = ""
                  /\ outcome = Running
                  /\ calls = <<>>
                  /\ conns = {}
                  /\ "Trim not performed" \notin log
            /\ pc = "answered" => response \in {"y", "n"}
            /\ response # "" => pc \in {"answered", "done"})
    /\ [][pc = "prompt" =>
            /\ pc' # "prompt" => pc' = "answered" /\ response' \in {"y", "n"}
            /\ asked' # asked => pc' = "prompt" /\ response' = ""]_vars

C27_Witness ==
    /\ pc = "answered"
    /\ op.name = "trim"
    /\ asked >= 1
    /\ response = "n"

\* C28: an upgrade or overlay whose target differs from the installed
\* version, has a module and has the procedure, invokes that procedure with
\* fromVersion the installed version, also when the target comes before the
\* installed version in the registry; the order of the two is never tested.
C28_NoOrderingConstraint ==
    (/\ pc = "done"
     /\ op.name \in Migration
     /\ before \in Versions
     /\ WantedTarget # before
     /\ importModule(WantedTarget).present
     /\ hasattr(importModule(WantedTarget), op.name)) =>
        /\ calls = <<[version |-> WantedTarget, proc |-> op.name,
                      arg |-> before]>>
        /\ outcome.type \notin {"CommandError", "ImportError"}

C28_Witness ==
    /\ pc = "done"
    /\ op.name = "upgrade"
    /\ versions = <<"1", "2">>
    /\ before = "2"
    /\ op.targetVersion = "1"
    /\ calls = <<[version |-> "1", proc |-> "upgrade", arg |-> "2"]>>
    /\ metadata = "1"

\* C29: without ignoreConflicts an insert that raises an integrity violation
\* is the last thing the load does: the command ends there with that error,
\* so that no row of a later table is inserted and no entry of an application
\* that comes later is written to a file or put to the operator.
C29_ConflictStopsLoad ==
    (op.name = "mergeFixture" /\ ~op.ignoreConflicts) =>
        \A i \in 1..Len(attempts) :
            ~attempts[i].ok =>
                /\ i = Len(attempts)
                /\ pc = "done"
                /\ outcome = Raised("IntegrityError", "insert", None, "")
                /\ Plan[pos].kind = "insert"
                /\ Plan[pos].table = attempts[i].table
                /\ Plan[pos].row = attempts[i].row
                /\ Len(attempts) + Len(handoffs) = pos

C29_Witness ==
    /\ pc = "done"
    /\ op.name = "mergeFixture"
    /\ ~op.ignoreConflicts
    /\ outcome.type = "IntegrityError"
    /\ fixture.apps = <<"self", OtherApp>>
    /\ handoffs = <<>>
    /\ \E k \in (pos + 1)..Len(Plan) :
          Plan[k].kind = "insert" /\ Plan[k].table # Plan[pos].table

C29_WitnessAfterHandoff ==
    /\ pc = "done"
    /\ op.name = "mergeFixture"
    /\ outcome.type = "IntegrityError"
    /\ fixture.apps = <<OtherApp, "self">>
    /\ handoffs = <<OtherApp>>

====
